---- MODULE Spec2Model ----
(***************************************************************************)
(* Model of the weighbridge page component src/webapp/src/app/page.tsx:    *)
(* the Record Store (entries), the Draft (form, editingId), the search     *)
(* term, and the handlers that React runs one at a time.                   *)
(*                                                                         *)
(* A JavaScript string is modelled as a sequence of one-character strings, *)
(* so that trim, toLowerCase, replace, Number(...), toString and includes  *)
(* are computed character by character as the code computes them.          *)
(*                                                                         *)
(* Spec is the component under sessions of at most MaxEvents events;       *)
(* SpecView is the Derived View over stores of at most MaxViewStore        *)
(* Entries and typed search strings.                                       *)
(***************************************************************************)
EXTENDS Integers, Sequences, FiniteSets, TLC

VARIABLES entries, form, editingId, searchTerm, lastEvent, usedIds, events

\* entries, form, editingId, searchTerm: the component's four useState cells.
\* lastEvent: the event handled last (which handler ran, whether it found its
\*   target, whether a Draft was being edited when it ran).
\* usedIds: every id an Entry of the store has carried so far.
\* events: the number of events handled so far.
vars == <<entries, form, editingId, searchTerm, lastEvent, usedIds, events>>

(***************************************************************************)
(* Bounds of the model.                                                    *)
(***************************************************************************)
\* A session handles at most this many events.
MaxEvents == 4

(***************************************************************************)
(* Strings.                                                                *)
(***************************************************************************)
UpperLetters ==
  <<"A","B","C","D","E","F","G","H","I","J","K","L","M",
    "N","O","P","Q","R","S","T","U","V","W","X","Y","Z">>

LowerLetters ==
  <<"a","b","c","d","e","f","g","h","i","j","k","l","m",
    "n","o","p","q","r","s","t","u","v","w","x","y","z">>

DigitChars == <<"0","1","2","3","4","5","6","7","8","9">>

IndexIn(seq, c) == CHOOSE i \in DOMAIN seq : seq[i] = c

Occurs(seq, c) == \E i \in DOMAIN seq : seq[i] = c

\* String.prototype.toLowerCase, one character
LowerChar(c) == IF Occurs(UpperLetters, c) THEN LowerLetters[IndexIn(UpperLetters, c)] ELSE c

\* String.prototype.toUpperCase, one character
UpperChar(c) == IF Occurs(LowerLetters, c) THEN UpperLetters[IndexIn(LowerLetters, c)] ELSE c

toLowerCase(s) == [i \in DOMAIN s |-> LowerChar(s[i])]

toUpperCase(s) == [i \in DOMAIN s |-> UpperChar(s[i])]

IsSpace(c) == c = " "

RECURSIVE trimStart(_)
trimStart(s) ==
  IF s = <<>> THEN s
  ELSE IF IsSpace(Head(s)) THEN trimStart(Tail(s)) ELSE s

RECURSIVE trimEnd(_)
trimEnd(s) ==
  IF s = <<>> THEN s
  ELSE IF IsSpace(s[Len(s)]) THEN trimEnd(SubSeq(s, 1, Len(s) - 1)) ELSE s

trimLeadingOnly(s) == trimStart(s)

\* String.prototype.trim
trim(s) == trimEnd(trimStart(s))

\* value.replace(/,/g, '')
removeCommas(s) == SelectSeq(s, LAMBDA c : c # ",")

\* haystack.includes(needle): needle occurs as a contiguous run of haystack
includes(haystack, needle) ==
  \E i \in 1..(Len(haystack) + 1) :
    /\ i + Len(needle) - 1 <= Len(haystack)
    /\ SubSeq(haystack, i, i + Len(needle) - 1) = needle

RECURSIVE join(_, _)
\* Array.prototype.join(sep)
join(parts, sep) ==
  IF parts = <<>> THEN <<>>
  ELSE IF Len(parts) = 1 THEN parts[1]
  ELSE parts[1] \o sep \o join(Tail(parts), sep)

(***************************************************************************)
(* Numbers.  Number(text) of a text over digits, sign, space and other     *)
(* characters: the text is trimmed, the empty text is 0, an optionally     *)
(* signed run of decimal digits is its value, anything else is NaN.        *)
(* The input texts of the model carry no '.', 'e', 'x' prefix or           *)
(* "Infinity", the other forms Number accepts.                             *)
(***************************************************************************)
AllDigits(s) == \A i \in DOMAIN s : Occurs(DigitChars, s[i])

RECURSIVE digitsValue(_)
digitsValue(s) ==
  IF s = <<>> THEN 0
  ELSE digitsValue(SubSeq(s, 1, Len(s) - 1)) * 10 + (IndexIn(DigitChars, s[Len(s)]) - 1)

NaN == [nan |-> TRUE, val |-> 0]

Num(v) == [nan |-> FALSE, val |-> v]

Number(text) ==
  LET t == trim(text) IN
  IF t = <<>> THEN Num(0)
  ELSE IF AllDigits(t) THEN Num(digitsValue(t))
  ELSE IF Head(t) \in {"-", "+"} /\ Len(t) > 1 /\ AllDigits(Tail(t))
       THEN Num((IF Head(t) = "-" THEN -1 ELSE 1) * digitsValue(Tail(t)))
  ELSE NaN

\* x || 0 for a number x: NaN and 0 are falsy
OrZero(x) == IF x.nan THEN 0 ELSE x.val

RECURSIVE natToString(_)
natToString(n) ==
  IF n < 10 THEN <<DigitChars[n + 1]>>
  ELSE natToString(n \div 10) \o <<DigitChars[(n % 10) + 1]>>

\* Number.prototype.toString of an integer
numToString(n) == IF n < 0 THEN <<"-">> \o natToString(-n) ELSE natToString(n)

(***************************************************************************)
(* Program data.                                                           *)
(***************************************************************************)
priceOptions ==
  << <<"3","0",",","0","0","0">>, <<"4","0",",","0","0","0">> >>

seedEntries ==
  << [plateNumber |-> <<"9","0","A","1","1","1","A","A">>,
      yukBilan |-> 48000, yuksiz |-> 12500, sofVazin |-> 35500,
      date |-> <<"2","0","2","4","-","1","1","-","1","8">>,
      price |-> <<"3","0",",","0","0","0">>,
      checkNumber |-> <<"C","H","K","-","2","0","2","4","-","9","0","8","1">>],
     [plateNumber |-> <<"3","0","B","5","5","5","B","B">>,
      yukBilan |-> 52500, yuksiz |-> 14000, sofVazin |-> 38500,
      date |-> <<"2","0","2","4","-","1","1","-","1","9">>,
      price |-> <<"4","0",",","0","0","0">>,
      checkNumber |-> <<"C","H","K","-","2","0","2","4","-","9","1","2","4">>] >>

(***************************************************************************)
(* The environment: what Math.random, the clock and the user can supply.   *)
(***************************************************************************)
\* Outcomes of Math.random().toString(36).slice(2, 10): a text of 0 to 8
\* characters over 0-9a-z.  Math.random() = 0 gives "0", whose slice is "".
\* Successive calls are independent: nothing keeps a call from returning a
\* value an earlier call returned.
Tokens == { <<>>, <<"p">>, <<"q">> }

\* new Date().toISOString().split('T')[0]
ClockDates == { <<"2","0","2","4","-","1","1","-","2","0">> }

PlateInputs == { <<" ">>, <<" ","k"," ">> }

\* handleInputChange stores event.target.value, whatever string it is, and
\* computeNetWeight itself provides for separators in it.
\* loaded weight: a plain number, a number with a thousands separator
LoadedInputs == { <<"8">>, <<"1",",","2">> }

\* empty weight: a plain number, an unparsable text
EmptyInputs == { <<"3">>, <<"x">> }

DateInputs == { <<"2","0","2","4","-","1","1","-","1","8">> }

CheckInputs == { <<" ","c"," ">> }

SearchInputs == { <<>>, <<" ">>, <<" ","9","0","a">>, <<"z","z">> }

InputValues(field) ==
  CASE field = "plateNumber" -> PlateInputs
    [] field = "yukBilan" -> LoadedInputs
    [] field = "yuksiz" -> EmptyInputs
    [] field = "date" -> DateInputs
    [] field = "summa" -> { priceOptions[i] : i \in DOMAIN priceOptions }
    [] field = "checkNumber" -> CheckInputs

FormFields == { "plateNumber", "yukBilan", "yuksiz", "date", "summa", "checkNumber" }

(***************************************************************************)
(* Pure functions of the component.                                        *)
(***************************************************************************)
makeInitialFormState(today) ==
  [plateNumber |-> <<>>, yukBilan |-> <<>>, yuksiz |-> <<>>,
   date |-> today, summa |-> priceOptions[1], checkNumber |-> <<>>]

computeNetWeight(loaded, empty) ==
  LET loadedValue == OrZero(Number(removeCommas(loaded)))
      emptyValue == OrZero(Number(removeCommas(empty)))
      diff == loadedValue - emptyValue
  IN IF diff > 0 THEN diff ELSE 0

\* editingId: string | null, as a sequence holding at most one id
None == <<>>

Some(id) == <<id>>

\* the truthiness of editingId: null and the empty string are falsy
Truthy(e) == e # None /\ e[1] # <<>>

\* editingId ?? generateId()
OrElse(e, fresh) == IF e # None THEN e[1] ELSE fresh

haystackCaseKept(entry) ==
  join(<< entry.plateNumber,
          numToString(entry.yukBilan),
          numToString(entry.yuksiz),
          numToString(entry.sofVazin),
          entry.date,
          entry.price,
          entry.checkNumber >>, <<" ">>)

haystack(entry) ==
  toLowerCase(join(<< entry.plateNumber,
                      numToString(entry.yukBilan),
                      numToString(entry.yuksiz),
                      numToString(entry.sofVazin),
                      entry.date,
                      entry.price,
                      entry.checkNumber >>, <<" ">>))

searchTermLower(term) == toLowerCase(trim(term))

filteredEntries(store, term) ==
  IF searchTermLower(term) = <<>> THEN store
  ELSE SelectSeq(store, LAMBDA entry : includes(haystack(entry), searchTermLower(term)))

withId(entry, id) ==
  [id |-> id, plateNumber |-> entry.plateNumber, yukBilan |-> entry.yukBilan,
   yuksiz |-> entry.yuksiz, sofVazin |-> entry.sofVazin, date |-> entry.date,
   price |-> entry.price, checkNumber |-> entry.checkNumber]

\* seedEntries.map((entry) => ({ ...entry, id: generateId() }))
seedWithIds(ids) == [i \in DOMAIN seedEntries |-> withId(seedEntries[i], ids[i])]

(***************************************************************************)
(* Rendering of a table row.                                               *)
(***************************************************************************)
RegExpSpecials ==
  { ".", "*", "+", "?", "^", "$", "{", "}", "(", ")", "|", "[", "]", "\\" }

RECURSIVE escapeRegExp(_)
\* value.replace(/[.*+?^${}()|[\]\\]/g, '\\$&')
escapeRegExp(value) ==
  IF value = <<>> THEN <<>>
  ELSE (IF Head(value) \in RegExpSpecials THEN <<"\\", Head(value)>> ELSE <<Head(value)>>)
         \o escapeRegExp(Tail(value))

RECURSIVE regExpAtoms(_)
\* new RegExp(`(${pattern})`, 'gi'): the atoms of the group.  An escaped
\* character and an ordinary character stand for themselves, a bare '.' for
\* any character; escapeRegExp leaves no other bare special character.
regExpAtoms(pattern) ==
  IF pattern = <<>> THEN <<>>
  ELSE IF Head(pattern) = "\\" /\ Len(pattern) >= 2
       THEN <<[any |-> FALSE, ch |-> pattern[2]]>> \o regExpAtoms(Tail(Tail(pattern)))
  ELSE <<[any |-> Head(pattern) = ".", ch |-> Head(pattern)]>> \o regExpAtoms(Tail(pattern))

matchesAtCaseSensitive(value, atoms, q) ==
  /\ q + Len(atoms) <= Len(value)
  /\ \A n \in DOMAIN atoms : atoms[n].any \/ value[q + n] = atoms[n].ch

\* the group matches value at offset q, letter case ignored (flag i)
matchesAt(value, atoms, q) ==
  /\ q + Len(atoms) <= Len(value)
  /\ \A n \in DOMAIN atoms :
       atoms[n].any \/ UpperChar(value[q + n]) = UpperChar(atoms[n].ch)

RECURSIVE splitFrom(_, _, _, _)
\* value.split(regex) with one capturing group, from the last split point p
\* and the scan position q: the text before a match, the match, and so on
splitFrom(value, atoms, p, q) ==
  IF q >= Len(value) THEN << SubSeq(value, p + 1, Len(value)) >>
  ELSE IF matchesAt(value, atoms, q) /\ Len(atoms) > 0
       THEN << SubSeq(value, p + 1, q), SubSeq(value, q + 1, q + Len(atoms)) >>
              \o splitFrom(value, atoms, q + Len(atoms), q + Len(atoms))
  ELSE splitFrom(value, atoms, p, q + 1)

\* the spans of a cell: their text and whether they carry the match style
highlightMatch(value, term) ==
  IF searchTermLower(term) = <<>> THEN << [text |-> value, mark |-> FALSE] >>
  ELSE LET segments == splitFrom(value, regExpAtoms(escapeRegExp(searchTermLower(term))), 0, 0)
       IN [i \in DOMAIN segments |->
             [text |-> segments[i],
              mark |-> toLowerCase(segments[i]) = searchTermLower(term)]]

RECURSIVE groupThousands(_)
groupThousands(digits) ==
  IF Len(digits) <= 3 THEN digits
  ELSE groupThousands(SubSeq(digits, 1, Len(digits) - 3))
         \o <<",">> \o SubSeq(digits, Len(digits) - 2, Len(digits))

\* value.toLocaleString('en-US', { maximumFractionDigits: 0 }) of an integer
formatNumber(value) ==
  IF value < 0 THEN <<"-">> \o groupThousands(natToString(-value))
  ELSE groupThousands(natToString(value))

\* the texts of the seven data cells of a row, in column order
rowTexts(entry) ==
  << entry.plateNumber,
     formatNumber(entry.yukBilan),
     entry.date,
     formatNumber(entry.yuksiz),
     formatNumber(entry.sofVazin),
     entry.price \o <<" ","U","Z","S">>,
     entry.checkNumber >>

idsOf(store) == { store[i].id : i \in DOMAIN store }

Event(op, hit, editing) == [op |-> op, hit |-> hit, editing |-> editing]

(***************************************************************************)
(* State after the first render.                                           *)
(***************************************************************************)
Init ==
  /\ \E ids \in [DOMAIN seedEntries -> Tokens] : entries = seedWithIds(ids)
  /\ \E today \in ClockDates : form = makeInitialFormState(today)
  /\ editingId = None
  /\ searchTerm = <<>>
  /\ lastEvent = Event("init", FALSE, FALSE)
  /\ usedIds = idsOf(entries)
  /\ events = 0

(***************************************************************************)
(* Handlers.                                                               *)
(***************************************************************************)
handleInputChangeAliased(field, value) ==
  /\ form' = [form EXCEPT ![field] = value]
  /\ entries' = [i \in DOMAIN entries |->
                   IF editingId = Some(entries[i].id) /\ field = "plateNumber"
                   THEN [entries[i] EXCEPT !.plateNumber = value]
                   ELSE entries[i]]
  /\ lastEvent' = Event("input", FALSE, editingId # None)
  /\ UNCHANGED <<editingId, searchTerm, usedIds>>

\* setForm((prev) => ({ ...prev, [field]: event.target.value }))
handleInputChange(field, value) ==
  /\ form' = [form EXCEPT ![field] = value]
  /\ lastEvent' = Event("input", FALSE, editingId # None)
  /\ UNCHANGED <<entries, editingId, searchTerm, usedIds>>

resetForm(today) ==
  /\ form' = makeInitialFormState(today)
  /\ editingId' = None

handleClear(today) ==
  /\ resetForm(today)
  /\ lastEvent' = Event("clear", FALSE, editingId # None)
  /\ UNCHANGED <<entries, searchTerm, usedIds>>

newEntryKeepsBlankCheck(id, check) ==
  [id |-> OrElse(editingId, id),
   plateNumber |-> trim(form.plateNumber),
   yukBilan |-> OrZero(Number(form.yukBilan)),
   yuksiz |-> OrZero(Number(form.yuksiz)),
   sofVazin |-> computeNetWeight(form.yukBilan, form.yuksiz),
   date |-> form.date,
   price |-> form.summa,
   checkNumber |-> trim(form.checkNumber)]

newEntry(id, check) ==
  [id |-> OrElse(editingId, id),
   plateNumber |-> trim(form.plateNumber),
   yukBilan |-> OrZero(Number(form.yukBilan)),
   yuksiz |-> OrZero(Number(form.yuksiz)),
   sofVazin |-> computeNetWeight(form.yukBilan, form.yuksiz),
   date |-> form.date,
   price |-> form.summa,
   checkNumber |-> IF trim(form.checkNumber) # <<>>
                   THEN trim(form.checkNumber)
                   ELSE <<"C","H","K","-">> \o toUpperCase(check)]

commitAppends(prev, entry) ==
  IF Truthy(editingId)
  THEN [i \in DOMAIN prev |-> IF prev[i].id = editingId[1] THEN entry ELSE prev[i]]
  ELSE prev \o <<entry>>

\* the updater handed to setEntries
commit(prev, entry) ==
  IF Truthy(editingId)
  THEN [i \in DOMAIN prev |-> IF prev[i].id = editingId[1] THEN entry ELSE prev[i]]
  ELSE <<entry>> \o prev

plateMissingUntrimmed == form.plateNumber = <<>>

\* !form.plateNumber.trim()
plateMissing == trim(form.plateNumber) = <<>>

\* generateId() is called for the id only when editingId is null, and for the
\* check number only when the Draft's check number is blank.
idCalls == IF editingId = None THEN Tokens ELSE { <<>> }

checkCalls == IF trim(form.checkNumber) = <<>> THEN Tokens ELSE { <<>> }

handleSubmit(today) ==
  IF plateMissing
  THEN /\ lastEvent' = Event("submit", FALSE, editingId # None)
       /\ UNCHANGED <<entries, form, editingId, searchTerm, usedIds>>
  ELSE /\ \E id \in idCalls, check \in checkCalls :
            entries' = commit(entries, newEntry(id, check))
       /\ resetForm(today)
       /\ lastEvent' = Event("submit", TRUE, editingId # None)
       /\ usedIds' = usedIds \cup idsOf(entries')
       /\ UNCHANGED searchTerm

handleEditUnchecked(id) ==
  IF \E i \in DOMAIN entries : entries[i].id = id
  THEN LET entry == entries[CHOOSE i \in DOMAIN entries :
                              /\ entries[i].id = id
                              /\ \A j \in 1..(i - 1) : entries[j].id # id]
       IN /\ form' = [plateNumber |-> entry.plateNumber,
                      yukBilan |-> numToString(entry.yukBilan),
                      yuksiz |-> numToString(entry.yuksiz),
                      date |-> entry.date,
                      summa |-> entry.price,
                      checkNumber |-> entry.checkNumber]
          /\ editingId' = Some(id)
          /\ lastEvent' = Event("edit", TRUE, editingId # None)
          /\ UNCHANGED <<entries, searchTerm, usedIds>>
  ELSE /\ editingId' = Some(id)
       /\ lastEvent' = Event("edit", FALSE, editingId # None)
       /\ UNCHANGED <<entries, form, searchTerm, usedIds>>

handleEdit(id) ==
  IF \E i \in DOMAIN entries : entries[i].id = id
  THEN LET entry == entries[CHOOSE i \in DOMAIN entries :
                              /\ entries[i].id = id
                              /\ \A j \in 1..(i - 1) : entries[j].id # id]
       IN /\ form' = [plateNumber |-> entry.plateNumber,
                      yukBilan |-> numToString(entry.yukBilan),
                      yuksiz |-> numToString(entry.yuksiz),
                      date |-> entry.date,
                      summa |-> entry.price,
                      checkNumber |-> entry.checkNumber]
          /\ editingId' = Some(id)
          /\ lastEvent' = Event("edit", TRUE, editingId # None)
          /\ UNCHANGED <<entries, searchTerm, usedIds>>
  ELSE /\ lastEvent' = Event("edit", FALSE, editingId # None)
       /\ UNCHANGED <<entries, form, editingId, searchTerm, usedIds>>

withoutIdInverted(prev, id) == SelectSeq(prev, LAMBDA entry : entry.id = id)

\* prev.filter((entry) => entry.id !== id)
withoutId(prev, id) == SelectSeq(prev, LAMBDA entry : entry.id # id)

deletesEditedAny(id) == editingId # None

\* editingId === id
deletesEdited(id) == editingId = Some(id)

handleDelete(id, today) ==
  /\ entries' = withoutId(entries, id)
  /\ IF deletesEdited(id)
     THEN resetForm(today)
     ELSE UNCHANGED <<form, editingId>>
  /\ lastEvent' = Event("delete", id \in idsOf(entries), editingId = Some(id))
  /\ UNCHANGED <<searchTerm, usedIds>>

handleRelayKeepsSearch(ids, today) ==
  /\ entries' = seedWithIds(ids)
  /\ resetForm(today)
  /\ lastEvent' = Event("relay", FALSE, editingId # None)
  /\ usedIds' = usedIds \cup idsOf(entries')
  /\ UNCHANGED searchTerm

handleRelay(ids, today) ==
  /\ entries' = seedWithIds(ids)
  /\ searchTerm' = <<>>
  /\ resetForm(today)
  /\ lastEvent' = Event("relay", FALSE, editingId # None)
  /\ usedIds' = usedIds \cup idsOf(entries')

setSearchTermFiltersStore(value) ==
  /\ searchTerm' = value
  /\ entries' = filteredEntries(entries, value)
  /\ lastEvent' = Event("search", FALSE, editingId # None)
  /\ UNCHANGED <<form, editingId, usedIds>>

setSearchTerm(value) ==
  /\ searchTerm' = value
  /\ lastEvent' = Event("search", FALSE, editingId # None)
  /\ UNCHANGED <<entries, form, editingId, usedIds>>

\* one more event of the session
Tick == events < MaxEvents /\ events' = events + 1

InputChange ==
  Tick /\ \E field \in FormFields : \E value \in InputValues(field) :
            handleInputChange(field, value)

Clear == Tick /\ \E today \in ClockDates : handleClear(today)

Submit == Tick /\ \E today \in ClockDates : handleSubmit(today)

Edit == Tick /\ \E id \in Tokens : handleEdit(id)

Delete == Tick /\ \E id \in Tokens, today \in ClockDates : handleDelete(id, today)

Relay ==
  Tick /\ \E ids \in [DOMAIN seedEntries -> Tokens], today \in ClockDates :
            handleRelay(ids, today)

Search == Tick /\ \E value \in SearchInputs : setSearchTerm(value)

Next == InputChange \/ Clear \/ Submit \/ Edit \/ Delete \/ Relay \/ Search

Spec == Init /\ [][Next]_vars

(***************************************************************************)
(* The Derived View as a function of the store and the search string:      *)
(* the store is drawn from the sequences of at most MaxViewStore Entries   *)
(* the handlers can produce, and the search input is typed over.           *)
(***************************************************************************)
MaxViewStore == 3

\* Entries as the handlers leave them: the two seed records, a created
\* record, a created record whose check number was generated, and a seed
\* record after an update of its plate
SampleEntries ==
  { withId(seedEntries[1], <<"p">>),
    withId(seedEntries[2], <<"q">>),
    [id |-> <<>>, plateNumber |-> <<"k">>, yukBilan |-> 8, yuksiz |-> 3,
     sofVazin |-> 5, date |-> <<"2","0","2","4","-","1","1","-","2","0">>,
     price |-> priceOptions[2], checkNumber |-> <<"c">>],
    [id |-> <<"q">>, plateNumber |-> <<"k">>, yukBilan |-> 0, yuksiz |-> 0,
     sofVazin |-> 12, date |-> <<"2","0","2","4","-","1","1","-","2","0">>,
     price |-> priceOptions[1], checkNumber |-> <<"C","H","K","-","P">>],
    [withId(seedEntries[1], <<"p">>) EXCEPT !.plateNumber = <<"k">>] }

SampleStores ==
  UNION { [1..n -> SampleEntries] : n \in 0..MaxViewStore }

\* search strings typed into the search input
SearchProbes ==
  { <<>>,
    <<" ">>,
    <<"3","0","b","5","5","5","b","b">>,
    <<" ","9","0","A","1"," ">>,
    <<"z","z","-","n","o","-","m","a","t","c","h">>,
    <<"K">>,
    <<"a","a"," ","4","8">>,
    <<"1">>,
    <<"0","0">>,
    <<"4","8","0","0","0">>,
    <<".">> }

InitView ==
  /\ entries \in SampleStores
  /\ \E today \in ClockDates : form = makeInitialFormState(today)
  /\ editingId = None
  /\ searchTerm = <<>>
  /\ lastEvent = Event("init", FALSE, FALSE)
  /\ usedIds = idsOf(entries)
  /\ events = 0

SearchView ==
  /\ \E value \in SearchProbes : setSearchTerm(value)
  /\ UNCHANGED events

SpecView == InitView /\ [][SearchView]_vars

(***************************************************************************)
(* Vocabulary of the properties.                                           *)
(***************************************************************************)
\* a text that is empty or holds only whitespace
IsBlank(s) == \A i \in DOMAIN s : s[i] = " "

\* needle occurs in hay as a substring
OccursIn(hay, needle) ==
  \E k \in 0..Len(hay) :
    /\ k + Len(needle) <= Len(hay)
    /\ \A n \in DOMAIN needle : hay[k + n] = needle[n]

\* a Draft as it is right after a reset: default date, first tariff, rest empty
IsFreshDraft(d) ==
  /\ d.plateNumber = <<>> /\ d.yukBilan = <<>> /\ d.yuksiz = <<>>
  /\ d.checkNumber = <<>>
  /\ d.date \in ClockDates
  /\ d.summa = <<"3","0",",","0","0","0">>

\* seq2 is seq1 with exactly the positions outside keep removed, order kept
IsRestriction(seq1, keep, seq2) ==
  /\ Len(seq2) = Cardinality(keep)
  /\ \A i \in keep : seq2[Cardinality({j \in keep : j <= i})] = seq1[i]

Max(a, b) == IF a >= b THEN a ELSE b

C2_CreatePrepends ==
  [][\A today \in ClockDates :
       (handleSubmit(today) /\ editingId = None /\ ~IsBlank(form.plateNumber))
       => /\ Len(entries') = Len(entries) + 1
          /\ \A i \in DOMAIN entries : entries'[i + 1] = entries[i]
          /\ editingId' = None
          /\ IsFreshDraft(form')]_vars

\* a create has just run on the two-Entry store
C2_Witness ==
  /\ lastEvent = Event("submit", TRUE, FALSE)
  /\ Len(entries) = 3
  /\ entries[1].plateNumber = <<"k">>

(***************************************************************************)
(* C3.  A submit in Editing(id) with a non-blank plate replaces exactly    *)
(* one Entry in place: same length, the Entry at the position that held id *)
(* is built from the Draft and carries id, every other Entry is unchanged  *)
(* at its position, and the workflow is Idle-New afterwards.               *)
(***************************************************************************)
C3_UpdateReplacesOne ==
  [][\A today \in ClockDates :
       (handleSubmit(today) /\ editingId # None /\ ~IsBlank(form.plateNumber))
       => /\ Len(entries') = Len(entries)
          /\ \E k \in DOMAIN entries :
               /\ entries[k].id = editingId[1]
               /\ entries'[k].id = editingId[1]
               /\ entries'[k].date = form.date
               /\ entries'[k].price = form.summa
               /\ \A j \in DOMAIN entries \ {k} : entries'[j] = entries[j]
          /\ editingId' = None]_vars

(***************************************************************************)
(* C4.  No two Entries of the store have the same id, in every reachable   *)
(* state.                                                                  *)
(***************************************************************************)
C4_IdsUnique ==
  \A i, j \in DOMAIN entries : i # j => entries[i].id # entries[j].id

(***************************************************************************)
(* C5.  A submit whose Draft plate is empty or whitespace-only changes     *)
(* nothing, in Idle-New and in Editing: store, Draft, editingId and search *)
(* term stay as they were.                                                 *)
(***************************************************************************)
C5_BlankSubmitChangesNothing ==
  [][\A today \in ClockDates :
       (handleSubmit(today) /\ IsBlank(form.plateNumber))
       => /\ entries' = entries
          /\ form' = form
          /\ editingId' = editingId
          /\ searchTerm' = searchTerm]_vars

\* a submit was rejected while editing, the Draft plate being whitespace
C5_Witness ==
  /\ lastEvent = Event("submit", FALSE, TRUE)
  /\ form.plateNumber = <<" ">>
  /\ editingId # None

(***************************************************************************)
(* C6.  Delete(id) removes the Entries with that id and nothing else: the  *)
(* Entries with another id stay, unchanged and in order; when no Entry has *)
(* the id, store, Draft and editingId are unchanged.                       *)
(***************************************************************************)
C6_DeleteRemovesOnlyThatId ==
  [][\A id \in Tokens, today \in ClockDates :
       handleDelete(id, today)
       => /\ IsRestriction(entries, {i \in DOMAIN entries : entries[i].id # id}, entries')
          /\ (\A i \in DOMAIN entries : entries[i].id # id)
               => (entries' = entries /\ form' = form /\ editingId' = editingId)]_vars

\* a delete has just removed an Entry and left another one behind
C6_Witness ==
  /\ lastEvent.op = "delete"
  /\ lastEvent.hit
  /\ Len(entries) >= 1

(***************************************************************************)
(* C7.  In Editing(id), Delete(id) moves the workflow to Idle-New with a   *)
(* fresh Draft; Delete(j) for j # id leaves editingId and every Draft      *)
(* field as they were.                                                     *)
(***************************************************************************)
C7_DeleteResetsOnlyTheEdited ==
  [][\A id \in Tokens, today \in ClockDates :
       (handleDelete(id, today) /\ editingId # None)
       => IF editingId[1] = id
          THEN editingId' = None /\ IsFreshDraft(form')
          ELSE editingId' = editingId /\ form' = form]_vars

\* another Entry than the edited one has just been deleted
C7_Witness ==
  /\ lastEvent = Event("delete", TRUE, FALSE)
  /\ editingId # None
  /\ form.plateNumber # <<>>

(***************************************************************************)
(* C8.  After Relay, from any state, the store holds exactly the seed      *)
(* records in seed order with the seed field values, the search term is    *)
(* empty, and the workflow is Idle-New with a fresh Draft.                 *)
(***************************************************************************)
C8_RelayRestoresSeed ==
  [][\A ids \in [DOMAIN seedEntries -> Tokens], today \in ClockDates :
       handleRelay(ids, today)
       => /\ Len(entries') = 2
          /\ \A i \in 1..2 :
               /\ entries'[i].plateNumber = seedEntries[i].plateNumber
               /\ entries'[i].yukBilan = seedEntries[i].yukBilan
               /\ entries'[i].yuksiz = seedEntries[i].yuksiz
               /\ entries'[i].sofVazin = seedEntries[i].sofVazin
               /\ entries'[i].date = seedEntries[i].date
               /\ entries'[i].price = seedEntries[i].price
               /\ entries'[i].checkNumber = seedEntries[i].checkNumber
          /\ searchTerm' = <<>>
          /\ editingId' = None
          /\ IsFreshDraft(form')]_vars

\* Relay has just run while a Draft was being edited
C8_Witness ==
  /\ lastEvent = Event("relay", FALSE, TRUE)
  /\ events >= 2

(***************************************************************************)
(* C9.  Every id Relay assigns differs from every id any Entry has carried *)
(* earlier in the session.                                                 *)
(***************************************************************************)
C9_RelayIdsAreNew ==
  [][\A ids \in [DOMAIN seedEntries -> Tokens], today \in ClockDates :
       handleRelay(ids, today)
       => \A i \in DOMAIN entries' : entries'[i].id \notin usedIds]_vars

(***************************************************************************)
(* C10.  For the store and any search string: a search string that is      *)
(* blank after trimming gives the full store in store order; any other     *)
(* gives exactly the Entries, in store order, whose lowercased haystack    *)
(* (plateNumber, grossWeight, emptyWeight, netWeight, date, price,         *)
(* checkNumber joined with a blank) contains the trimmed, lowercased       *)
(* search string.  A plate in another letter case finds its Entry; a string*)
(* in no haystack gives the empty view.  Checked under SpecView.           *)
(***************************************************************************)
HaystackOf(entry) ==
  entry.plateNumber \o <<" ">> \o numToString(entry.yukBilan) \o <<" ">>
    \o numToString(entry.yuksiz) \o <<" ">> \o numToString(entry.sofVazin)
    \o <<" ">> \o entry.date \o <<" ">> \o entry.price \o <<" ">> \o entry.checkNumber

Needle(term) == toLowerCase(trimEnd(trimStart(term)))

IsMatch(entry, term) == OccursIn(toLowerCase(HaystackOf(entry)), Needle(term))

ViewIsRight(term) ==
  IF IsBlank(term)
  THEN filteredEntries(entries, term) = entries
  ELSE IsRestriction(entries,
                     {i \in DOMAIN entries : IsMatch(entries[i], term)},
                     filteredEntries(entries, term))

C10_ViewIsTheMatchingSubsequence ==
  /\ ViewIsRight(searchTerm)
  /\ \A i \in DOMAIN entries :
       \E k \in DOMAIN filteredEntries(entries, toLowerCase(entries[i].plateNumber)) :
         filteredEntries(entries, toLowerCase(entries[i].plateNumber))[k] = entries[i]
  /\ searchTerm = <<"z","z","-","n","o","-","m","a","t","c","h">>
       => filteredEntries(entries, searchTerm) = <<>>

\* the search "30b555bb" shows exactly the Entry with plate 30B555BB out of
\* a store of three
C10_Witness ==
  /\ searchTerm = <<"3","0","b","5","5","5","b","b">>
  /\ Len(entries) = 3
  /\ entries[2].plateNumber = <<"3","0","B","5","5","5","B","B">>
  /\ filteredEntries(entries, searchTerm) = <<entries[2]>>

(***************************************************************************)
(* C11.  Changing the search term, to any string and any number of times,  *)
(* never changes the store, the Draft or editingId; only the Derived View  *)
(* changes, and with the search term set back to empty the Derived View is *)
(* the full store again.                                                   *)
(***************************************************************************)
C11_SearchOnlyChangesTheView ==
  [][\A value \in SearchInputs :
       setSearchTerm(value)
       => /\ entries' = entries
          /\ form' = form
          /\ editingId' = editingId
          /\ value = <<>> => filteredEntries(entries', searchTerm') = entries]_vars

\* a search typed while a Draft is being edited hides every Entry of the
\* store, which still holds its Entries
C11_Witness ==
  /\ lastEvent = Event("search", FALSE, TRUE)
  /\ searchTerm = <<"z","z">>
  /\ Len(entries) >= 2
  /\ filteredEntries(entries, searchTerm) = <<>>

(***************************************************************************)
(* C12.  With an active search, highlightMatch splits a cell's text into   *)
(* segments whose concatenation is the text and marks exactly the          *)
(* case-insensitive occurrences of the search term, every one of them      *)
(* taken left to right without overlap, and nothing else: the term 550 on  *)
(* the text 38,550 marks 550 and leaves 38, unmarked.  With no active      *)
(* search the text is returned unmarked.  Checked under SpecView.          *)
(***************************************************************************)
RECURSIVE TextOf(_)
TextOf(spans) == IF spans = <<>> THEN <<>> ELSE Head(spans).text \o TextOf(Tail(spans))

HighlightIsRight(value, term) ==
  LET spans == highlightMatch(value, term)
      needle == Needle(term)
  IN IF IsBlank(term)
     THEN spans = << [text |-> value, mark |-> FALSE] >>
     ELSE /\ TextOf(spans) = value
          /\ \A k \in DOMAIN spans :
               IF spans[k].mark
               THEN /\ Len(spans[k].text) = Len(needle)
                    /\ \A n \in DOMAIN needle : LowerChar(spans[k].text[n]) = needle[n]
                    \* no occurrence starts further left, in the text before it
                    /\ k > 1 =>
                         ~OccursIn(toLowerCase(spans[k - 1].text
                                     \o SubSeq(spans[k].text, 1, Len(needle) - 1)), needle)
               ELSE ~OccursIn(toLowerCase(spans[k].text), needle)

CellTexts == UNION { { rowTexts(entries[i])[c] : c \in 1..7 } : i \in DOMAIN entries }

C12_HighlightMarksTheOccurrences ==
  /\ \A value \in CellTexts : HighlightIsRight(value, searchTerm)
  /\ highlightMatch(<<"3","8",",","5","5","0">>, <<"5","5","0">>)
       = << [text |-> <<"3","8",",">>, mark |-> FALSE],
            [text |-> <<"5","5","0">>, mark |-> TRUE],
            [text |-> <<>>, mark |-> FALSE] >>

\* the search "1" marks the three 1s of the plate 90A111AA
C12_Witness ==
  /\ searchTerm = <<"1">>
  /\ \E i \in DOMAIN entries :
       /\ entries[i].plateNumber = <<"9","0","A","1","1","1","A","A">>
       /\ Cardinality({ k \in DOMAIN highlightMatch(entries[i].plateNumber, searchTerm) :
                          highlightMatch(entries[i].plateNumber, searchTerm)[k].mark }) = 3

(***************************************************************************)
(* C13.  Whenever a search is active, every Entry of the Derived View has  *)
(* at least one marked segment in at least one of its displayed cells.     *)
(***************************************************************************)
HasMark(entry, term) ==
  \E c \in 1..7 :
    \E k \in DOMAIN highlightMatch(rowTexts(entry)[c], term) :
      highlightMatch(rowTexts(entry)[c], term)[k].mark

C13_ShownEntriesAreHighlighted ==
  ~IsBlank(searchTerm)
    => \A i \in DOMAIN filteredEntries(entries, searchTerm) :
         HasMark(filteredEntries(entries, searchTerm)[i], searchTerm)

(***************************************************************************)
(* C14.  Selecting edit on an Entry of the store, from Idle-New or from    *)
(* Editing of another Entry, sets editingId to that Entry's id and every   *)
(* Draft field to that Entry's current value (the weights as their text),  *)
(* and leaves the store unchanged; selecting edit on an id that is not in  *)
(* the store changes neither the Draft, editingId nor the store.           *)
(***************************************************************************)
DraftOf(entry) ==
  [plateNumber |-> entry.plateNumber,
   yukBilan |-> numToString(entry.yukBilan),
   yuksiz |-> numToString(entry.yuksiz),
   date |-> entry.date,
   summa |-> entry.price,
   checkNumber |-> entry.checkNumber]

C14_EditLoadsTheEntry ==
  [][/\ \A i \in DOMAIN entries :
          handleEdit(entries[i].id)
          => /\ editingId' = Some(entries[i].id)
             /\ form' = DraftOf(entries[i])
             /\ entries' = entries
     /\ \A id \in Tokens \ idsOf(entries) :
          handleEdit(id) => /\ form' = form
                            /\ editingId' = editingId
                            /\ entries' = entries]_vars

(***************************************************************************)
(* C15.  The Draft never aliases an Entry: a Draft field change or an      *)
(* explicit clear, in Idle-New or in Editing(id), leaves every Entry of    *)
(* the store unchanged, and so does a submit with a blank plate; an Entry  *)
(* being edited keeps its old field values until a submit with a non-blank *)
(* plate commits the Draft.                                                *)
(***************************************************************************)
C15_DraftNeverAliasesAnEntry ==
  [][/\ lastEvent'.op = "input"
          => \A field \in FormFields : \A value \in InputValues(field) :
               handleInputChange(field, value) => entries' = entries
     /\ lastEvent'.op = "clear"
          => \A today \in ClockDates : handleClear(today) => entries' = entries
     /\ lastEvent'.op = "submit" /\ plateMissing
          => \A today \in ClockDates : handleSubmit(today) => entries' = entries]_vars

\* in Editing, the Draft's plate has been retyped and the Entry being edited
\* still holds its own
C15_Witness ==
  /\ lastEvent = Event("input", FALSE, TRUE)
  /\ form.plateNumber = <<" ","k"," ">>
  /\ \E i \in DOMAIN entries :
       /\ editingId = Some(entries[i].id)
       /\ entries[i].plateNumber = <<"3","0","B","5","5","5","B","B">>

(***************************************************************************)
(* C16.  Every Entry of the store has a non-empty checkNumber in every     *)
(* reachable state: a Create or Update whose Draft checkNumber is blank    *)
(* (empty or whitespace only) stores a non-empty generated token, and one  *)
(* whose Draft checkNumber is non-blank stores that text trimmed.          *)
(***************************************************************************)
\* t is s without its leading and trailing spaces
IsTrimOf(t, s) ==
  /\ t # <<>> => t[1] # " " /\ t[Len(t)] # " "
  /\ \E a \in 0..Len(s) :
       /\ a + Len(t) <= Len(s)
       /\ \A n \in DOMAIN s :
            IF n > a /\ n <= a + Len(t) THEN s[n] = t[n - a] ELSE s[n] = " "

\* the positions of the new store a commit has written
Committed ==
  IF editingId = None \/ editingId = Some(<<>>)
  THEN {1}
  ELSE {i \in DOMAIN entries : entries[i].id = editingId[1]}

C17_PlateIsTrimmedAndNonEmpty ==
  \A i \in DOMAIN entries :
    /\ entries[i].plateNumber # <<>>
    /\ entries[i].plateNumber[1] # " "
    /\ entries[i].plateNumber[Len(entries[i].plateNumber)] # " "

\* an update has stored the plate typed as " k " on a seed Entry
C17_Witness ==
  /\ lastEvent = Event("submit", TRUE, TRUE)
  /\ Len(entries) = 2
  /\ \E i \in DOMAIN entries :
       /\ entries[i].plateNumber = <<"k">>
       /\ entries[i].date \notin ClockDates

(***************************************************************************)
(* C18.  Whenever the workflow is in Editing(id), an Entry with that id is *)
(* in the store: no sequence of edit, submit, delete, Relay and clear      *)
(* events reaches a state where editingId names an Entry that is no longer *)
(* in the store, so a submit in Editing with a non-blank plate never drops *)
(* the Draft: afterwards the store holds an Entry with that id built from  *)
(* the Draft.                                                              *)
(***************************************************************************)
C18_EditedEntryIsInTheStore ==
  /\ [](editingId # None => \E i \in DOMAIN entries : entries[i].id = editingId[1])
  /\ [][lastEvent'.op = "submit" /\ editingId # None /\ ~IsBlank(form.plateNumber)
          => \A today \in ClockDates :
               handleSubmit(today)
               => \E k \in DOMAIN entries' :
                    /\ entries'[k].id = editingId[1]
                    /\ IsTrimOf(entries'[k].plateNumber, form.plateNumber)
                    /\ entries'[k].date = form.date
                    /\ entries'[k].price = form.summa]_vars

\* Editing of p goes on after the other Entry was deleted
C18_Witness ==
  /\ editingId = Some(<<"p">>)
  /\ Len(entries) = 1
  /\ entries[1].id = <<"p">>
  /\ lastEvent.op = "delete"
  /\ lastEvent.hit

(***************************************************************************)
(* C19.  Round trip: for every Entry of the store, selecting edit on it    *)
(* and then submitting without changing any Draft field leaves the store   *)
(* exactly as it was (same Entries, same field values including netWeight  *)
(* and checkNumber, same order) and returns the workflow to Idle-New.      *)
(***************************************************************************)
C19_EditThenSubmitChangesNothing ==
  [][lastEvent.op = "edit" /\ lastEvent.hit /\ lastEvent'.op = "submit"
       => \A today \in ClockDates :
            handleSubmit(today)
            => /\ entries' = entries
               /\ editingId' = None
               /\ IsFreshDraft(form')]_vars

====
